---- MODULE Spec2Model ----
(***************************************************************************)
(* graph_store: a replicated in-memory directed graph.  Every node of the  *)
(* cluster owns a Graph actor (petgraph StableGraph + key map), a          *)
(* MutationsLogStore actor (sqlite table keyed by hash), a MutationsLog    *)
(* actor (the pipeline) and a Remotes actor (the peer table).              *)
(*                                                                         *)
(* Handlers that await another actor or a peer are split at their await    *)
(* points: actix spawns a ResponseActFuture into the actor's context, so   *)
(* other messages of the same actor are handled while one is suspended.    *)
(***************************************************************************)
EXTENDS Integers, Sequences, FiniteSets, TLC

\* ------------------------------------------------------------------ bounds
MaxProposals == 2    \* local Proposes started in one behaviour
MaxFaults == 1       \* transport and disk failures in one behaviour

\* --------------------------------------------------------------- universes
Nodes == {1, 2, 3}
Keys == {1, 2}

\* A node payload N; its key, From<N> for the key type, is its id.
NodeOf(k, nm) == [id |-> k, name |-> nm]

\* GraphMutation, src/src/lib.rs:57-67.
AddEdge(f, t, e) == [op |-> "AddEdge", from |-> f, to |-> t, edge |-> e]
RemoveEdge(f, t) == [op |-> "RemoveEdge", from |-> f, to |-> t]
AddNode(k, n) == [op |-> "AddNode", key |-> k, node |-> n]
RemoveNode(k) == [op |-> "RemoveNode", key |-> k]

\* The mutations local callers propose in the cluster specification, and
\* the nodes whose callers propose them.
ProposeMuts == {AddNode(1, NodeOf(1, 0)), RemoveNode(1)}
Proposers == {1}

\* --------------------------------------------------------------- encoding
\* bincode of a GraphMutation: the variant index, then the fields in order.
Encode(m) ==
  CASE m.op = "AddEdge" -> <<0, m.from, m.to, m.edge>>
    [] m.op = "RemoveEdge" -> <<1, m.from, m.to>>
    [] m.op = "AddNode" -> <<2, m.key, m.node.id, m.node.name>>
    [] m.op = "RemoveNode" -> <<3, m.key>>

\* Variant: a decoder that misreads the name of an AddNode payload.
DecodeMisread(b) ==
  CASE b[1] = 0 -> [op |-> "AddEdge", from |-> b[2], to |-> b[3], edge |-> b[4]]
    [] b[1] = 1 -> [op |-> "RemoveEdge", from |-> b[2], to |-> b[3]]
    [] b[1] = 2 -> [op |-> "AddNode", key |-> b[2],
                    node |-> [id |-> b[3], name |-> b[4] + 1]]
    [] b[1] = 3 -> [op |-> "RemoveNode", key |-> b[2]]

Decode(b) ==
  CASE b[1] = 0 -> AddEdge(b[2], b[3], b[4])
    [] b[1] = 1 -> RemoveEdge(b[2], b[3])
    [] b[1] = 2 -> AddNode(b[2], NodeOf(b[3], b[4]))
    [] b[1] = 3 -> RemoveNode(b[2])

\* md5 of the Debug rendering of a mutation, abstracted to an injective
\* digest below DigestSpace.  Its order is unrelated to the order in which
\* mutations make sense: a remove may sort before or after its add.
DigestSpace == 1000
Md5(m) ==
  CASE m.op = "AddNode" -> 100 + 20 * m.key + 2 * m.node.id + m.node.name
    [] m.op = "RemoveNode" -> 300 + m.key
    [] m.op = "RemoveEdge" -> 400 + 10 * m.from + m.to
    [] m.op = "AddEdge" -> 500 + 100 * m.from + 10 * m.to + m.edge

\* GraphMutation::get_hash: node_id followed by the digest.
get_hash(node_id, m) == node_id * DigestSpace + Md5(m)

\* ---------------------------------------------------------------- LogStore
\* The table mutations_log: id -> (mutation blob, committed).
EmptyLog == <<>>

Rows(tbl) == DOMAIN tbl

\* Variant: an insert into a table emptied first.
InsertRowAlone(tbl, hash, m, c) ==
  [h \in {hash} |-> [mutation |-> Encode(m), committed |-> c]]

InsertRow(tbl, hash, m, c) ==
  [h \in Rows(tbl) \cup {hash} |->
    IF h = hash THEN [mutation |-> Encode(m), committed |-> c] ELSE tbl[h]]

\* Variant: an INSERT OR REPLACE, which overwrites the row of a known id.
StoreAddReplacing(tbl, hash, m, ioOk) ==
  IF ~ioOk
    THEN [res |-> "WriteLogError", tbl |-> tbl]
    ELSE [res |-> "Ok", tbl |-> InsertRow(tbl, hash, m, FALSE)]

\* MutationsLogStoreMessage::Add: a plain INSERT, the primary key rejects a
\* second row with the same id.
StoreAdd(tbl, hash, m, ioOk) ==
  IF ~ioOk \/ hash \in Rows(tbl)
    THEN [res |-> "WriteLogError", tbl |-> tbl]
    ELSE [res |-> "Ok", tbl |-> InsertRow(tbl, hash, m, FALSE)]

\* Variant: the upsert writes the row without raising the committed flag.
StoreCommitUnflagged(tbl, hash, m, ioOk) ==
  IF ~ioOk
    THEN [res |-> "WriteLogError", tbl |-> tbl]
    ELSE IF hash \in Rows(tbl)
      THEN [res |-> "Ok", tbl |-> tbl]
      ELSE [res |-> "Ok", tbl |-> InsertRow(tbl, hash, m, FALSE)]

\* MutationsLogStoreMessage::Commit: INSERT ... ON CONFLICT(id) DO UPDATE
\* SET committed = true.
StoreCommit(tbl, hash, m, ioOk) ==
  IF ~ioOk
    THEN [res |-> "WriteLogError", tbl |-> tbl]
    ELSE IF hash \in Rows(tbl)
      THEN [res |-> "Ok", tbl |-> [tbl EXCEPT ![hash].committed = TRUE]]
      ELSE [res |-> "Ok", tbl |-> InsertRow(tbl, hash, m, TRUE)]

\* Handler<MutationsLogQuery> for MutationsLogStore: SELECT id, mutation.
StoreQuery(tbl) == [h \in Rows(tbl) |-> Decode(tbl[h].mutation)]

IsCommitted(tbl, hash) == hash \in Rows(tbl) /\ tbl[hash].committed

\* ------------------------------------------------------------------- Graph
\* Graph { inner: StableGraph, nodes_map }.  inner is the node slots (index
\* -> payload), the list of vacant slots that add_node reuses first, and the
\* edges in insertion order (petgraph itself allows parallel edges).
EmptyGraph == [nodes |-> <<>>, free |-> <<>>, edges |-> <<>>, nodes_map |-> <<>>]

Slots(g) == DOMAIN g.nodes

\* StableGraph::add_node: the most recently vacated slot, else a new one.
NewSlot(g) ==
  IF Len(g.free) > 0 THEN Head(g.free) ELSE Cardinality(Slots(g)) + Len(g.free)

RestFree(g) == IF Len(g.free) > 0 THEN Tail(g.free) ELSE g.free

EdgeIdx(g, a, b) == {i \in DOMAIN g.edges : g.edges[i].src = a /\ g.edges[i].dst = b}

FirstOf(S) == CHOOSE i \in S : \A j \in S : i <= j

SeqWithout(s, drop) ==
  LET F[i \in 0..Len(s)] ==
        IF i = 0 THEN <<>>
        ELSE IF i \in drop THEN F[i - 1] ELSE Append(F[i - 1], s[i])
  IN F[Len(s)]

get_node_index(g, key) ==
  IF key \in DOMAIN g.nodes_map
    THEN [res |-> "Ok", val |-> g.nodes_map[key]]
    ELSE [res |-> "NodeNotFound", val |-> 0]

get_edge(g, from, to) ==
  IF from \in DOMAIN g.nodes_map /\ to \in DOMAIN g.nodes_map
    THEN LET found == EdgeIdx(g, g.nodes_map[from], g.nodes_map[to])
         IN IF found = {}
              THEN [res |-> "EdgeNotFound", val |-> 0]
              ELSE [res |-> "Ok", val |-> g.edges[FirstOf(found)].w]
    ELSE [res |-> "EdgeNotFound", val |-> 0]

\* Variant: add_edge without the duplicate check (petgraph takes parallel
\* edges).
add_edge_parallel(g, from, to, edge, saveOk) ==
  IF get_node_index(g, from).res # "Ok" \/ get_node_index(g, to).res # "Ok"
    THEN [res |-> "NodeNotFound", g |-> g]
  ELSE IF ~saveOk
    THEN [res |-> "FileSaveError", g |-> g]
  ELSE [res |-> "Ok",
        g |-> [g EXCEPT !.edges =
                 Append(@, [src |-> g.nodes_map[from], dst |-> g.nodes_map[to],
                            w |-> edge])]]

add_edge(g, from, to, edge, saveOk) ==
  IF get_edge(g, from, to).res = "Ok"
    THEN [res |-> "ConflictDuplicateEdge", g |-> g]
  ELSE IF get_node_index(g, from).res # "Ok" \/ get_node_index(g, to).res # "Ok"
    THEN [res |-> "NodeNotFound", g |-> g]
  ELSE IF ~saveOk
    THEN [res |-> "FileSaveError", g |-> g]
  ELSE [res |-> "Ok",
        g |-> [g EXCEPT !.edges =
                 Append(@, [src |-> g.nodes_map[from], dst |-> g.nodes_map[to],
                            w |-> edge])]]

remove_edge(g, from, to, saveOk) ==
  IF from \in DOMAIN g.nodes_map /\ to \in DOMAIN g.nodes_map
    THEN LET found == EdgeIdx(g, g.nodes_map[from], g.nodes_map[to])
         IN IF found = {}
              THEN [res |-> "EdgeNotFound", g |-> g]
            ELSE IF ~saveOk
              THEN [res |-> "FileSaveError", g |-> g]
            ELSE [res |-> "Ok",
                  g |-> [g EXCEPT !.edges = SeqWithout(@, {FirstOf(found)})]]
    ELSE [res |-> "EdgeNotFound", g |-> g]

\* Variant: add_node that replaces the payload of a key that is mapped.
add_node_overwrite(g, key, node, saveOk) ==
  IF ~saveOk
    THEN [res |-> "FileSaveError", g |-> g]
  ELSE LET idx == IF key \in DOMAIN g.nodes_map THEN g.nodes_map[key] ELSE NewSlot(g)
       IN [res |-> "Ok",
           g |-> [g EXCEPT
                    !.nodes = [i \in Slots(g) \cup {idx} |->
                                IF i = idx THEN node ELSE g.nodes[i]],
                    !.free = IF key \in DOMAIN g.nodes_map THEN g.free ELSE RestFree(g),
                    !.nodes_map = [k \in DOMAIN g.nodes_map \cup {key} |->
                                    IF k = key THEN idx ELSE g.nodes_map[k]]]]

\* Variant: add_node without the duplicate check, a second node for the key.
add_node_again(g, key, node, saveOk) ==
  IF ~saveOk
    THEN [res |-> "FileSaveError", g |-> g]
  ELSE LET idx == NewSlot(g)
       IN [res |-> "Ok",
           g |-> [g EXCEPT
                    !.nodes = [i \in Slots(g) \cup {idx} |->
                                IF i = idx THEN node ELSE g.nodes[i]],
                    !.free = RestFree(g),
                    !.nodes_map = [k \in DOMAIN g.nodes_map \cup {key} |->
                                    IF k = key THEN idx ELSE g.nodes_map[k]]]]

add_node(g, key, node, saveOk) ==
  IF key \in DOMAIN g.nodes_map
    THEN [res |-> "ConflictDuplicateNode", g |-> g]
  ELSE IF ~saveOk
    THEN [res |-> "FileSaveError", g |-> g]
  ELSE LET idx == NewSlot(g)
       IN [res |-> "Ok",
           g |-> [g EXCEPT
                    !.nodes = [i \in Slots(g) \cup {idx} |->
                                IF i = idx THEN node ELSE g.nodes[i]],
                    !.free = RestFree(g),
                    !.nodes_map = [k \in DOMAIN g.nodes_map \cup {key} |->
                                    IF k = key THEN idx ELSE g.nodes_map[k]]]]

\* Variant: remove_node that leaves the edges arriving at the node in place.
remove_node_outgoing(g, key, saveOk) ==
  IF key \notin DOMAIN g.nodes_map
    THEN [res |-> "NodeNotFound", g |-> g, val |-> <<>>]
  ELSE LET idx == g.nodes_map[key]
       IN [res |-> "Ok", val |-> <<g.nodes[idx]>>,
           g |-> [nodes |-> [i \in Slots(g) \ {idx} |-> g.nodes[i]],
                  free |-> <<idx>> \o g.free,
                  edges |-> SeqWithout(g.edges,
                              {i \in DOMAIN g.edges : g.edges[i].src = idx}),
                  nodes_map |-> [k \in DOMAIN g.nodes_map \ {key} |->
                                  g.nodes_map[k]]]]

\* val is the Option of the payload that Ok carries.
remove_node(g, key, saveOk) ==
  IF key \notin DOMAIN g.nodes_map
    THEN [res |-> "NodeNotFound", g |-> g, val |-> <<>>]
  ELSE LET idx == g.nodes_map[key]
       IN IF idx \notin Slots(g)
            THEN [res |-> "NodeNotDeleted", g |-> g, val |-> <<>>]
          ELSE IF ~saveOk
            THEN [res |-> "FileSaveError", g |-> g, val |-> <<>>]
          ELSE [res |-> "Ok", val |-> <<g.nodes[idx]>>,
                g |-> [nodes |-> [i \in Slots(g) \ {idx} |-> g.nodes[i]],
                       free |-> <<idx>> \o g.free,
                       edges |-> SeqWithout(g.edges,
                                   {i \in DOMAIN g.edges :
                                      g.edges[i].src = idx \/ g.edges[i].dst = idx}),
                       nodes_map |-> [k \in DOMAIN g.nodes_map \ {key} |->
                                       g.nodes_map[k]]]]

\* Handler<GraphMutation> for Graph.
GraphApply(g, m, saveOk) ==
  CASE m.op = "AddEdge" -> add_edge(g, m.from, m.to, m.edge, saveOk)
    [] m.op = "RemoveEdge" -> remove_edge(g, m.from, m.to, saveOk)
    [] m.op = "AddNode" -> add_node(g, m.key, m.node, saveOk)
    [] m.op = "RemoveNode" -> remove_node(g, m.key, saveOk)

\* Variant: commit_mutation that stops after the LogStore upsert.
commit_without_apply(tbl, g, hash, m, ioOk, saveOk) ==
  LET s == StoreCommit(tbl, hash, m, ioOk)
  IN [res |-> s.res, tbl |-> s.tbl, g |-> g, sent |-> FALSE]

\* Variant: commit_mutation that sends the mutation to the Graph whatever
\* the LogStore answered.
commit_and_apply_anyway(tbl, g, hash, m, ioOk, saveOk) ==
  LET s == StoreCommit(tbl, hash, m, ioOk)
      a == GraphApply(g, m, saveOk)
  IN [res |-> IF s.res # "Ok" THEN s.res ELSE a.res,
      tbl |-> s.tbl, g |-> a.g, sent |-> TRUE]

\* MutationsLog::commit_mutation: the entry is sent to the LogStore (the
\* upsert) and, when that returned Ok, its mutation to the Graph, whose result
\* is returned.  sent tells whether the Graph received the mutation.
commit_mutation(tbl, g, hash, m, ioOk, saveOk) ==
  LET s == StoreCommit(tbl, hash, m, ioOk)
      a == GraphApply(g, m, saveOk)
  IN IF s.res # "Ok"
       THEN [res |-> s.res, tbl |-> s.tbl, g |-> g, sent |-> FALSE]
       ELSE [res |-> a.res, tbl |-> s.tbl, g |-> a.g, sent |-> TRUE]

IoErrors == {"WriteLogError", "FileSaveError"}

\* Graph::get_nodes, as the set of payloads.
get_nodes(g) == {g.nodes[i] : i \in Slots(g)}
has_node(g, key) == key \in DOMAIN g.nodes_map

\* Graph::get_graph: a clone of inner.
get_graph(g) == [nodes |-> g.nodes, edges |-> g.edges]

\* Graph::get_node.
get_node(g, key) ==
  IF key \in DOMAIN g.nodes_map /\ g.nodes_map[key] \in Slots(g)
    THEN [res |-> "Ok", val |-> <<g.nodes[g.nodes_map[key]]>>]
    ELSE [res |-> "NodeNotFound", val |-> <<>>]

\* The answers of get_nodes, get_edges, has_node and get_node of a Graph.
Answers(g) ==
  [get_nodes |-> get_nodes(g),
   get_edges |-> g.edges,
   has_node |-> [k \in Keys |-> has_node(g, k)],
   get_node |-> [k \in Keys |-> get_node(g, k)]]

\* Graph::get_node_indices: the indices of the keys that are mapped.
get_node_indices(g, keys) ==
  {g.nodes_map[keys[i]] : i \in {j \in DOMAIN keys : keys[j] \in DOMAIN g.nodes_map}}

\* The clone of inner with the nodes of keep and the edges between them
\* (StableGraph removes a node together with its edges).
Induced(g, keep, dropEdges) ==
  [nodes |-> [i \in Slots(g) \cap keep |-> g.nodes[i]],
   edges |-> SeqWithout(g.edges,
               {i \in DOMAIN g.edges :
                  \/ g.edges[i].src \notin keep
                  \/ g.edges[i].dst \notin keep
                  \/ i \in dropEdges})]

\* Variant: retain_nodes that keeps every edge with a retained source.
retain_nodes_by_source(g, keys) ==
  LET keep == get_node_indices(g, keys)
  IN [nodes |-> [i \in Slots(g) \cap keep |-> g.nodes[i]],
      edges |-> SeqWithout(g.edges,
                  {i \in DOMAIN g.edges : g.edges[i].src \notin keep})]

\* Graph::retain_nodes.
retain_nodes(g, keys) == Induced(g, get_node_indices(g, keys), {})

\* Option<Vec<_>>.
None == [some |-> FALSE, list |-> <<>>]
Some(list) == [some |-> TRUE, list |-> list]

\* Iterator::find on what is left of an include list: the elements up to
\* and including the first equal one are consumed, all of them when there
\* is none.
Find(rest, x) ==
  LET at == {i \in DOMAIN rest : rest[i] = x}
  IN IF at = {} THEN [hit |-> FALSE, rest |-> <<>>]
     ELSE [hit |-> TRUE, rest |-> SubSeq(rest, FirstOf(at) + 1, Len(rest))]

\* The node_filter closure of filter_graph over the node slots in index
\* order: the slots kept.
FilterNodes(g, include) ==
  LET cap == Cardinality(Slots(g)) + Len(g.free)
      F[i \in 0..cap] ==
        IF i = 0 THEN [kept |-> {}, rest |-> include.list]
        ELSE IF (i - 1) \notin Slots(g) THEN F[i - 1]
        ELSE LET r == Find(F[i - 1].rest, g.nodes[i - 1])
             IN [kept |-> IF r.hit THEN F[i - 1].kept \cup {i - 1} ELSE F[i - 1].kept,
                 rest |-> r.rest]
  IN IF include.some THEN F[cap].kept ELSE Slots(g)

\* The edge_filter closure over the edges, in the order add_edge inserted
\* them; filter_map calls it for the edges between kept nodes only.  The
\* edges dropped.
FilterEdges(g, kept, include) ==
  LET F[i \in 0..Len(g.edges)] ==
        IF i = 0 THEN [dropped |-> {}, rest |-> include.list]
        ELSE IF g.edges[i].src \notin kept \/ g.edges[i].dst \notin kept
          THEN F[i - 1]
        ELSE LET r == Find(F[i - 1].rest, g.edges[i].w)
             IN [dropped |-> IF r.hit THEN F[i - 1].dropped
                             ELSE F[i - 1].dropped \cup {i},
                 rest |-> r.rest]
  IN IF include.some THEN F[Len(g.edges)].dropped ELSE {}

\* Graph::filter_graph.
filter_graph(g, include_nodes, include_edges) ==
  LET kept == FilterNodes(g, include_nodes)
  IN Induced(g, kept, FilterEdges(g, kept, include_edges))

\* ----------------------------------------------------------------- cluster
VARIABLES
  sync_with_n,  \* Remotes.sync_with_n, the configured replication factor
  phase,        \* per node: "off", "remotes", "catchup" or "serving"
  remotes,      \* per node: Remotes.remotes, address -> remotes_log
  graph,        \* per node: the Graph actor
  log,          \* per node: the mutations_log table
  pending,      \* per node: MutationsLog.pending_mutations_log
  boot,         \* per node: the startup handler in progress
  props,        \* the local Proposes in progress, with their Remotes futures
  nprop,        \* Proposes started so far
  applied,      \* history: per node, the hashes its Graph applied with Ok
  attempted,    \* history: per node, the hashes its Graph was sent
  replicated,   \* history: the hashes whose ReplicateToN returned Ok
  fresh,        \* history: the nodes started with no Propose in flight or since
  faults,       \* history: the transport and disk failures so far
  call          \* the last call made directly on a component, with its result

vars == <<sync_with_n, phase, remotes, graph, log, pending, boot, props, nprop,
          applied, attempted, replicated, fresh, faults, call>>

\* What the cluster actions leave alone unless they say otherwise.
hist == <<applied, attempted, replicated, fresh>>
NoCall == [op |-> "none"]

SyncChoices == {1, 2}

\* RemotesEntry.remotes_log: Ok(flat view) or Err.
OkView(v) == [ok |-> TRUE, view |-> v]
ErrView == [ok |-> FALSE, view |-> <<>>]

\* The flat_remotes_log a node answers with: address -> remotes_log.is_ok().
Flat(tbl) == [a \in DOMAIN tbl |-> tbl[a].ok]

\* The clients ReplicateToN chooses from: entries whose remotes_log is Ok.
Reachable(tbl) == {a \in DOMAIN tbl : tbl[a].ok}

Min(a, b) == IF a < b THEN a ELSE b

\* Variant: a choice of at most sync_with_n of them, possibly fewer.
SamplesUpTo(S, n) == {T \in SUBSET S : Cardinality(T) <= Min(n, Cardinality(S))}

\* choose_multiple(rng, sync_with_n): any sync_with_n of them, all if fewer.
Samples(S, n) == {T \in SUBSET S : Cardinality(T) = Min(n, Cardinality(S))}

Put(f, k, v) == [x \in DOMAIN f \cup {k} |-> IF x = k THEN v ELSE f[x]]

IdleBoot == [pc |-> "idle"]

\* The outcomes of a call that can fail: Ok, and the failure while the
\* behaviour has failures left.
Outcomes == IF faults < MaxFaults THEN BOOLEAN ELSE {TRUE}
Bump(failed) == IF failed THEN faults + 1 ELSE faults

Init ==
  /\ sync_with_n \in SyncChoices
  /\ phase = [n \in Nodes |-> "off"]
  /\ remotes = [n \in Nodes |-> <<>>]
  /\ graph = [n \in Nodes |-> EmptyGraph]
  /\ log = [n \in Nodes |-> EmptyLog]
  /\ pending = [n \in Nodes |-> <<>>]
  /\ boot = [n \in Nodes |-> IdleBoot]
  /\ props = {}
  /\ nprop = 0
  /\ applied = [n \in Nodes |-> {}]
  /\ attempted = [n \in Nodes |-> {}]
  /\ replicated = {}
  /\ fresh = {}
  /\ faults = 0
  /\ call = NoCall

\* ----------------------------------------------------------- startup: peers
\* No process is in its startup handlers.
Settled == \A a \in Nodes : boot[a].pc \in {"idle", "done", "failed"}

\* Nodes 2 and 3 are interchangeable (no caller proposes there): 2 starts
\* before 3.
StartAfter == [b \in Nodes |-> IF b = 3 THEN {2} ELSE {}]

\* The process starts: its RpcEndpoint listens and Remotes handles
\* InitializeRemotes.  GraphClient::new succeeds for the initial addresses
\* that are listening; the others are left out.  Processes are started one
\* after the other, in the order of StartAfter.
Launch(b) ==
  /\ phase[b] = "off"
  /\ \E initial \in SUBSET {a \in Nodes \ {b} : phase[a] # "off"} :
       LET connected == {a \in initial : phase[a] # "off"}
       IN boot' = [boot EXCEPT ![b] =
            [pc |-> "gossip", initial |-> initial, todo |-> connected,
             acc |-> <<>>, flat |-> [a \in connected |-> TRUE]]]
  /\ phase' = [phase EXCEPT ![b] = "remotes"]
  /\ fresh' = IF props = {} THEN fresh \cup {b} ELSE fresh
  /\ UNCHANGED <<sync_with_n, remotes, graph, log, pending, props, nprop,
                 applied, attempted, replicated, faults, call>>

Start(b) ==
  /\ Settled
  /\ \A a \in StartAfter[b] : phase[a] # "off"
  /\ Launch(b)

\* Handler<SyncRemotesMessage> for Remotes, on the clone of the table taken
\* at its start: a known sender's view is replaced, an unknown sender is
\* dialled back and inserted when the dial succeeds.
GossipIn(snap, from, view, dialOk) ==
  IF from \in DOMAIN snap THEN Put(snap, from, OkView(view))
  ELSE IF dialOk THEN Put(snap, from, OkView(view))
  ELSE snap

\* InitializeRemotes sends SyncRemotesMessage to the next client.  Delivered,
\* the peer's handler stores the updated clone as its table and answers with
\* its flat view, which InitializeRemotes keeps for that peer; a transport
\* error is kept as that peer's remotes_log.  No other gossip is in flight
\* while b starts, so the peer's handler runs undisturbed.
Gossip(b) ==
  /\ boot[b].pc = "gossip"
  /\ \E p \in boot[b].todo, delivered \in Outcomes, dialOk \in Outcomes :
       LET tbl == GossipIn(remotes[p], b, boot[b].flat, dialOk)
       IN IF delivered
            THEN /\ remotes' = [remotes EXCEPT ![p] = tbl]
                 /\ boot' = [boot EXCEPT ![b].todo = @ \ {p},
                                         ![b].acc = Put(@, p, OkView(Flat(tbl)))]
                 /\ faults' = Bump(~dialOk /\ b \notin DOMAIN remotes[p])
            ELSE /\ boot' = [boot EXCEPT ![b].todo = @ \ {p},
                                         ![b].acc = Put(@, p, ErrView)]
                 /\ faults' = Bump(TRUE)
                 /\ UNCHANGED remotes
  /\ UNCHANGED <<sync_with_n, phase, graph, log, pending, props, nprop, hist, call>>

\* -------------------------------------------------------- startup: catch-up
\* Variant: a SyncMutationsLog that answers with an empty log.
WireLogEmpty(tbl) == {}

\* What a peer's SyncMutationsLog answers: its table, every row (committed
\* or not), serialized by the server and deserialized by the client.
WireLog(tbl) ==
  {[hash |-> h, mutation |-> Decode(Encode(StoreQuery(tbl)[h]))] : h \in Rows(tbl)}

\* The Vec<MutationsLogMutation> the client hands over for a peer's answer.
\* The peer builds it from a HashMap, whose order is unspecified; here the
\* entries come with the hashes descending, so that the sort has work to do.
\* (A peer's answer has one entry per hash, and the sort and dedup that
\* follow make the merged log independent of this order.)
RECURSIVE LogVec(_)
LogVec(S) ==
  IF S = {} THEN <<>>
  ELSE LET e == CHOOSE x \in S : \A y \in S : y.hash <= x.hash
       IN <<e>> \o LogVec(S \ {e})

\* sort_by(|a, b| a.hash.cmp(&b.hash)): a stable sort, ascending.
RECURSIVE SortByHash(_)
SortByHash(q) ==
  IF q = <<>> THEN <<>>
  ELSE LET rest == SortByHash(SubSeq(q, 1, Len(q) - 1))
           e == q[Len(q)]
           k == Cardinality({i \in DOMAIN rest : rest[i].hash <= e.hash})
       IN SubSeq(rest, 1, k) \o <<e>> \o SubSeq(rest, k + 1, Len(rest))

\* dedup_by(|a, b| a.hash == b.hash): of consecutive entries with the same
\* hash the first is kept.
RECURSIVE DedupByHash(_)
DedupByHash(q) ==
  IF Len(q) <= 1 THEN q
  ELSE LET rest == DedupByHash(SubSeq(q, 1, Len(q) - 1))
           e == q[Len(q)]
       IN IF rest[Len(rest)].hash = e.hash THEN rest ELSE Append(rest, e)

\* Variant: the aggregated log sorted but with its repeats left in.
SortOnly(q) == SortByHash(q)

\* mutations_log_agg.sort_by(hash) followed by dedup_by(hash).
SortDedup(q) == DedupByHash(SortByHash(q))

\* The replay that starts once every client has answered.
ReplayOf(initial, agg, clone) ==
  [pc |-> "replay", initial |-> initial, merged |-> SortDedup(agg),
   clone |-> clone]

\* InitializeMutationsLog up to its first await: it clones pending and asks
\* Remotes, whose Handler<MutationsLogQuery> clones the client of every table
\* entry (with no entry the replay starts at once, on an empty log).
QueryOf(initial, tbl, clone) ==
  IF DOMAIN tbl = {} THEN ReplayOf(initial, <<>>, clone)
  ELSE [pc |-> "fetch", initial |-> initial, todo |-> DOMAIN tbl, agg |-> <<>>,
        clone |-> clone]

\* InitializeRemotes resolves: the table it built replaces actor.remotes.
\* run() then sends InitializeMutationsLog.
InitRemotesDone(b) ==
  /\ boot[b].pc = "gossip"
  /\ boot[b].todo = {}
  /\ remotes' = [remotes EXCEPT ![b] = boot[b].acc]
  /\ phase' = [phase EXCEPT ![b] = "catchup"]
  /\ boot' = [boot EXCEPT ![b] = QueryOf(boot[b].initial, boot[b].acc, pending[b])]
  /\ UNCHANGED <<sync_with_n, graph, log, pending, props, nprop, hist, faults, call>>

\* Variant: a fetch that leaves out the peer that did not answer and goes on
\* with the logs it has.
FetchLogSkipFailed(b) ==
  /\ boot[b].pc = "fetch"
  /\ \E p \in boot[b].todo, delivered \in Outcomes :
       LET got == IF delivered THEN LogVec(WireLog(log[p])) ELSE <<>>
       IN /\ boot' = [boot EXCEPT ![b] =
               IF boot[b].todo = {p}
                 THEN ReplayOf(boot[b].initial, boot[b].agg \o got, boot[b].clone)
                 ELSE [boot[b] EXCEPT !.todo = @ \ {p}, !.agg = @ \o got]]
          /\ faults' = Bump(~delivered)
  /\ UNCHANGED <<sync_with_n, phase, remotes, graph, log, pending, props, nprop,
                 hist, call>>

\* One client.send(MutationsLogQuery).await??: the peer's whole log is
\* appended, or the first error ends the handler with Err.
FetchLog(b) ==
  /\ boot[b].pc = "fetch"
  /\ \E p \in boot[b].todo, delivered \in Outcomes :
       IF delivered
         THEN /\ boot' = [boot EXCEPT ![b] =
                   IF boot[b].todo = {p}
                     THEN ReplayOf(boot[b].initial,
                                   boot[b].agg \o LogVec(WireLog(log[p])), boot[b].clone)
                     ELSE [boot[b] EXCEPT !.todo = @ \ {p},
                                          !.agg = @ \o LogVec(WireLog(log[p]))]]
              /\ UNCHANGED faults
         ELSE /\ boot' = [boot EXCEPT ![b] = [pc |-> "failed"]]
              /\ faults' = Bump(TRUE)
  /\ UNCHANGED <<sync_with_n, phase, remotes, graph, log, pending, props, nprop,
                 hist, call>>

\* Variant: a replay that ends the handler with the first Err.
ReplayUntilError(b) ==
  /\ boot[b].pc = "replay"
  /\ boot[b].merged # <<>>
  /\ \E ioOk \in Outcomes, saveOk \in Outcomes :
       LET e == Head(boot[b].merged)
           r == commit_mutation(log[b], graph[b], e.hash, e.mutation, ioOk, saveOk)
       IN /\ log' = [log EXCEPT ![b] = r.tbl]
          /\ graph' = [graph EXCEPT ![b] = r.g]
          /\ attempted' = [attempted EXCEPT ![b] =
               IF r.sent THEN @ \cup {e.hash} ELSE @]
          /\ applied' = [applied EXCEPT ![b] =
               IF r.res = "Ok" THEN @ \cup {e.hash} ELSE @]
          /\ boot' = [boot EXCEPT ![b] =
               IF r.res = "Ok" THEN [boot[b] EXCEPT !.merged = Tail(@)]
               ELSE [pc |-> "failed"]]
          /\ faults' = Bump(r.res \in IoErrors)
  /\ UNCHANGED <<sync_with_n, phase, remotes, pending, props, nprop,
                 replicated, fresh, call>>

\* One iteration of the replay loop: commit_mutation of the next entry; an
\* entry whose commit_mutation returned Err goes to the cloned pending map.
Replay(b) ==
  /\ boot[b].pc = "replay"
  /\ boot[b].merged # <<>>
  /\ \E ioOk \in Outcomes, saveOk \in Outcomes :
       LET e == Head(boot[b].merged)
           r == commit_mutation(log[b], graph[b], e.hash, e.mutation, ioOk, saveOk)
       IN /\ log' = [log EXCEPT ![b] = r.tbl]
          /\ graph' = [graph EXCEPT ![b] = r.g]
          /\ attempted' = [attempted EXCEPT ![b] =
               IF r.sent THEN @ \cup {e.hash} ELSE @]
          /\ applied' = [applied EXCEPT ![b] =
               IF r.res = "Ok" THEN @ \cup {e.hash} ELSE @]
          /\ boot' = [boot EXCEPT ![b] =
               [boot[b] EXCEPT !.merged = Tail(@),
                  !.clone = IF r.res = "Ok" THEN @ ELSE Put(@, e.hash, e.mutation)]]
          /\ faults' = Bump(r.res \in IoErrors)
  /\ UNCHANGED <<sync_with_n, phase, remotes, pending, props, nprop,
                 replicated, fresh, call>>

\* InitializeMutationsLog resolves Ok: the clone becomes the pending map and
\* the node starts serving local mutations.
CatchupDone(b) ==
  /\ boot[b].pc = "replay"
  /\ boot[b].merged = <<>>
  /\ pending' = [pending EXCEPT ![b] = boot[b].clone]
  /\ phase' = [phase EXCEPT ![b] = "serving"]
  /\ boot' = [boot EXCEPT ![b] = [pc |-> "done", initial |-> boot[b].initial]]
  /\ UNCHANGED <<sync_with_n, remotes, graph, log, props, nprop, hist, faults, call>>

\* ------------------------------------------------------------------ Propose
\* Variant: a Remotes future that insists on at least one acknowledgement.
RemFutureStrict(sample) ==
  [st |-> IF sample = {} THEN "err" ELSE "run", sample |-> sample, todo |-> sample,
   sends |-> [p \in sample |-> 0]]

\* Variant: a Propose that goes on to its commit whatever Remotes answered.
AfterReplicateLax(sy) ==
  IF sy.st \in {"ok", "err"} THEN [pc |-> "store", res |-> "none"]
  ELSE [pc |-> "replicate", res |-> "none"]

\* A Remotes future for one MutationsLogMutation message: the clients it
\* sampled and those it has not yet got an Ok from.  sends counts, for the
\* record, the addr.send calls it made to each.
RemFuture(sample) ==
  [st |-> IF sample = {} THEN "ok" ELSE "run", sample |-> sample, todo |-> sample,
   sends |-> [p \in sample |-> 0]]

\* Where the Propose stands once its remotes.send(..).await?? has resolved.
AfterReplicate(sy) ==
  IF sy.st = "ok" THEN [pc |-> "store", res |-> "none"]
  ELSE IF sy.st = "err" THEN [pc |-> "ret", res |-> "SyncError"]
  ELSE [pc |-> "replicate", res |-> "none"]

\* Variant: a Propose that appends its entry, uncommitted, to the LogStore
\* before it hands it to Remotes.
ProposeBeginAppending(n, m) ==
  /\ phase[n] = "serving"
  /\ \E s1 \in Samples(Reachable(remotes[n]), sync_with_n),
        s2 \in Samples(Reachable(remotes[n]), sync_with_n) :
       LET sy == RemFuture(s2)
           t == [node |-> n, m |-> m, hash |-> get_hash(n, m),
                 pc |-> AfterReplicate(sy).pc, res |-> "none",
                 ff |-> RemFuture(s1), sy |-> sy,
                 reach |-> Reachable(remotes[n]),
                 seq |-> nprop + 1,
                 alone |-> \A u \in props : u.node = n => u.pc = "ret"]
       IN /\ props' = props \cup {t}
          /\ replicated' = IF sy.st = "ok" THEN replicated \cup {t.hash}
                           ELSE replicated
          /\ log' = [log EXCEPT ![n] = StoreAdd(log[n], t.hash, m, TRUE).tbl]
  /\ nprop' = nprop + 1
  /\ fresh' = {}
  /\ UNCHANGED <<sync_with_n, phase, remotes, graph, pending, boot,
                 applied, attempted, faults, call>>

\* Handler<GraphMutation> for MutationsLog up to its first await: the hash,
\* the insert into a clone of pending (the clone is dropped with the
\* future), then do_send and send of the entry to Remotes.  Remotes handles
\* both with Handler<MutationsLogMutation>, each drawing its own sample.
\* seq numbers the Proposes; alone tells that no other Propose of the node
\* was in progress when this one began.  In the cluster specification a
\* caller awaits its Propose before the next one, and calls while no process
\* is starting.
ProposeBegin(n, m) ==
  /\ phase[n] = "serving"
  /\ \E s1 \in Samples(Reachable(remotes[n]), sync_with_n),
        s2 \in Samples(Reachable(remotes[n]), sync_with_n) :
       LET sy == RemFuture(s2)
           t == [node |-> n, m |-> m, hash |-> get_hash(n, m),
                 pc |-> AfterReplicate(sy).pc, res |-> "none",
                 ff |-> RemFuture(s1), sy |-> sy,
                 reach |-> Reachable(remotes[n]),
                 seq |-> nprop + 1,
                 alone |-> \A u \in props : u.node = n => u.pc = "ret"]
       IN /\ props' = props \cup {t}
          /\ replicated' = IF sy.st = "ok" THEN replicated \cup {t.hash}
                           ELSE replicated
  /\ nprop' = nprop + 1
  /\ fresh' = {}
  /\ UNCHANGED <<sync_with_n, phase, remotes, graph, log, pending, boot,
                 applied, attempted, faults, call>>

ProposeStart(n, m) ==
  /\ nprop < MaxProposals
  /\ Settled
  /\ \A t \in props : t.node = n => t.pc = "ret"
  /\ ProposeBegin(n, m)

Lanes == {"ff", "sy"}

\* The task t with the future of one lane replaced (and, for the awaited
\* lane, the Propose moved on when the future has resolved).
WithLane(t, lane, f) ==
  IF lane = "ff" THEN [t EXCEPT !.ff = f]
  ELSE [t EXCEPT !.sy = f, !.pc = AfterReplicate(f).pc, !.res = AfterReplicate(f).res]

\* Variant: a loop that goes on to the next client whatever p answered.
AnsweredAnyway(f, p, ok) ==
  [f EXCEPT !.todo = @ \ {p},
            !.st = IF f.todo = {p} THEN "ok" ELSE "run",
            !.sends[p] = @ + 1]

\* The future after client p answered: on Ok the loop goes on (and the
\* future resolves Ok after the last client), on Err the ?? ends it.
Answered(f, p, ok) ==
  IF ok THEN [f EXCEPT !.todo = @ \ {p},
                       !.st = IF f.todo = {p} THEN "ok" ELSE "run",
                       !.sends[p] = @ + 1]
  ELSE [f EXCEPT !.st = "err", !.sends[p] = @ + 1]

\* The peers that answered Ok to the future.
Acked(f) == f.sample \ f.todo

\* Variant: a receiver that names the entry by the digest of the mutation
\* it decoded, without the originator's prefix.
FromRequestRehashed(q) ==
  [hash |-> Md5(Decode(q.graph_mutation)), mutation |-> Decode(q.graph_mutation)]

\* TryInto<GraphMutationRequest> and TryFrom<GraphMutationRequest> for
\* MutationsLogMutation: the hash as it is, the mutation through bincode.
ToRequest(e) == [hash |-> e.hash, graph_mutation |-> Encode(e.mutation)]
FromRequest(q) == [hash |-> q.hash, mutation |-> Decode(q.graph_mutation)]

\* Variant: an endpoint that answers () once the entry is stored, whatever
\* the Graph answered.
GraphMutationRpcStored(r) == r.sent

\* The answer of a mutation endpoint of GraphServer to the result r the
\* MutationsLog returned for the commit: Response () on Ok(_), and
\* Status::internal on Err, which the sending client receives as an error.
GraphMutationRpc(r) == r.res = "Ok"

\* Variant: a peer that hands every entry it receives to its own Remotes.
RemSendRelay(t, lane) ==
  /\ t \in props
  /\ t[lane].st = "run"
  /\ \E p \in t[lane].todo, delivered \in Outcomes,
        ioOk \in Outcomes, saveOk \in Outcomes :
       LET e == FromRequest(ToRequest([hash |-> t.hash, mutation |-> t.m]))
           r == commit_mutation(log[p], graph[p], e.hash, e.mutation, ioOk, saveOk)
           f == Answered(t[lane], p, delivered /\ GraphMutationRpc(r))
           relay == [node |-> p, m |-> e.mutation, hash |-> e.hash,
                     pc |-> "ret", res |-> "none",
                     ff |-> RemFuture(Reachable(remotes[p]) \ {t.node}),
                     sy |-> RemFuture({}), reach |-> Reachable(remotes[p]),
                     seq |-> 0, alone |-> TRUE]
       IN /\ props' = (props \ {t}) \cup {WithLane(t, lane, f)} \cup
                        (IF delivered THEN {relay} ELSE {})
          /\ replicated' = IF lane = "sy" /\ f.st = "ok"
                             THEN replicated \cup {t.hash} ELSE replicated
          /\ IF delivered
               THEN /\ log' = [log EXCEPT ![p] = r.tbl]
                    /\ graph' = [graph EXCEPT ![p] = r.g]
                    /\ attempted' = [attempted EXCEPT ![p] =
                         IF r.sent THEN @ \cup {e.hash} ELSE @]
                    /\ applied' = [applied EXCEPT ![p] =
                         IF r.res = "Ok" THEN @ \cup {e.hash} ELSE @]
                    /\ faults' = Bump(r.res \in IoErrors)
               ELSE /\ faults' = Bump(TRUE)
                    /\ UNCHANGED <<log, graph, attempted, applied>>
  /\ UNCHANGED <<sync_with_n, phase, remotes, pending, boot, nprop, fresh, call>>

\* addr.send(msg.clone()).await?? for the next sampled client.  The
\* GraphMutation RPC reaches the peer, whose Handler<MutationsLogMutation>
\* for MutationsLog runs commit_mutation on the entry; or the transport
\* fails.
RemSend(t, lane) ==
  /\ t \in props
  /\ t[lane].st = "run"
  /\ \E p \in t[lane].todo, delivered \in Outcomes,
        ioOk \in Outcomes, saveOk \in Outcomes :
       LET e == FromRequest(ToRequest([hash |-> t.hash, mutation |-> t.m]))
           r == commit_mutation(log[p], graph[p], e.hash, e.mutation, ioOk, saveOk)
           f == Answered(t[lane], p, delivered /\ GraphMutationRpc(r))
       IN /\ props' = (props \ {t}) \cup {WithLane(t, lane, f)}
          /\ replicated' = IF lane = "sy" /\ f.st = "ok"
                             THEN replicated \cup {t.hash} ELSE replicated
          /\ IF delivered
               THEN /\ log' = [log EXCEPT ![p] = r.tbl]
                    /\ graph' = [graph EXCEPT ![p] = r.g]
                    /\ attempted' = [attempted EXCEPT ![p] =
                         IF r.sent THEN @ \cup {e.hash} ELSE @]
                    /\ applied' = [applied EXCEPT ![p] =
                         IF r.res = "Ok" THEN @ \cup {e.hash} ELSE @]
                    /\ faults' = Bump(r.res \in IoErrors)
               ELSE /\ faults' = Bump(TRUE)
                    /\ UNCHANGED <<log, graph, attempted, applied>>
  /\ UNCHANGED <<sync_with_n, phase, remotes, pending, boot, nprop, fresh, call>>

\* commit_mutation of the local Propose, first await: the LogStore upsert.
ProposeStore(t) ==
  /\ t \in props
  /\ t.pc = "store"
  /\ \E ioOk \in Outcomes :
       LET r == StoreCommit(log[t.node], t.hash, t.m, ioOk)
       IN /\ log' = [log EXCEPT ![t.node] = r.tbl]
          /\ props' = (props \ {t}) \cup
               {IF r.res = "Ok" THEN [t EXCEPT !.pc = "graph"]
                ELSE [t EXCEPT !.pc = "ret", !.res = r.res]}
          /\ faults' = Bump(r.res = "WriteLogError")
  /\ UNCHANGED <<sync_with_n, phase, remotes, graph, pending, boot, nprop,
                 hist, call>>

\* Second await: the Graph apply, whose result the caller receives.
ProposeGraph(t) ==
  /\ t \in props
  /\ t.pc = "graph"
  /\ \E saveOk \in Outcomes :
       LET r == GraphApply(graph[t.node], t.m, saveOk)
       IN /\ graph' = [graph EXCEPT ![t.node] = r.g]
          /\ attempted' = [attempted EXCEPT ![t.node] = @ \cup {t.hash}]
          /\ applied' = [applied EXCEPT ![t.node] =
               IF r.res = "Ok" THEN @ \cup {t.hash} ELSE @]
          /\ props' = (props \ {t}) \cup {[t EXCEPT !.pc = "ret", !.res = r.res]}
          /\ faults' = Bump(r.res = "FileSaveError")
  /\ UNCHANGED <<sync_with_n, phase, remotes, log, pending, boot, nprop,
                 replicated, fresh, call>>

\* The caller has its result and the do_send future has ended.
ProposeForget(t) ==
  /\ t \in props
  /\ t.pc = "ret"
  /\ t.ff.st # "run"
  /\ props' = props \ {t}
  /\ UNCHANGED <<sync_with_n, phase, remotes, graph, log, pending, boot, nprop,
                 hist, faults, call>>

Next ==
  \/ \E b \in Nodes : Start(b)
  \/ \E b \in Nodes : Gossip(b)
  \/ \E b \in Nodes : InitRemotesDone(b)
  \/ \E b \in Nodes : FetchLog(b)
  \/ \E b \in Nodes : Replay(b)
  \/ \E b \in Nodes : CatchupDone(b)
  \/ \E n \in Proposers, m \in ProposeMuts : ProposeStart(n, m)
  \/ \E t \in props, lane \in Lanes : RemSend(t, lane)
  \/ \E t \in props : ProposeStore(t)
  \/ \E t \in props : ProposeGraph(t)
  \/ \E t \in props : ProposeForget(t)

Spec == Init /\ [][Next]_vars

\* ------------------------------------------------------- the LogStore alone
\* Calls made directly on the MutationsLogStore of one node, with entries of
\* two origins; the other components stay as constructed.
StoreEntries ==
  {[hash |-> get_hash(n, m), mutation |-> m] : n \in {1, 2}, m \in ProposeMuts}

\* What is kept of the call before the last: its operation and whether the
\* hash it named was present.
Brief(c) ==
  IF c.op = "none" THEN <<"none", FALSE>> ELSE <<c.op, c.hash \in Rows(c.pre)>>

InitStore ==
  /\ Init
  /\ sync_with_n = 1

StoreCall(op, e, ioOk) ==
  LET r == IF op = "Add" THEN StoreAdd(log[1], e.hash, e.mutation, ioOk)
           ELSE StoreCommit(log[1], e.hash, e.mutation, ioOk)
  IN /\ log' = [log EXCEPT ![1] = r.tbl]
     /\ call' = [op |-> op, hash |-> e.hash, io |-> ioOk, res |-> r.res,
                 pre |-> log[1], prior |-> Brief(call)]
     /\ UNCHANGED <<sync_with_n, phase, remotes, graph, pending, boot, props,
                    nprop, hist, faults>>

AddCall == \E e \in StoreEntries, ioOk \in BOOLEAN : StoreCall("Add", e, ioOk)
CommitCall == \E e \in StoreEntries, ioOk \in BOOLEAN : StoreCall("Commit", e, ioOk)

NextStore == AddCall \/ CommitCall

SpecStore == InitStore /\ [][NextStore]_vars

\* ------------------------------------------------- processes starting together
\* Processes that start in any order and at any time: the
\* Handler<SyncRemotesMessage> of a peer is then split at its await (the dial
\* of an unknown sender), and several of them are in progress at once.
\* The message of b reaches peer p, whose handler clones its table; or the
\* transport fails and the error is kept as that peer's remotes_log.
GossipRecv(b) ==
  /\ boot[b].pc = "gossip"
  /\ \E p \in boot[b].todo, delivered \in Outcomes :
       IF delivered
         THEN /\ boot' = [boot EXCEPT ![b] =
                   [pc |-> "await", initial |-> boot[b].initial,
                    todo |-> boot[b].todo, acc |-> boot[b].acc,
                    flat |-> boot[b].flat, at |-> p, snap |-> remotes[p]]]
              /\ UNCHANGED faults
         ELSE /\ boot' = [boot EXCEPT ![b].todo = @ \ {p},
                                      ![b].acc = Put(@, p, ErrView)]
              /\ faults' = Bump(TRUE)
  /\ UNCHANGED <<sync_with_n, phase, remotes, graph, log, pending, props, nprop,
                 hist, call>>

\* The handler of the peer resolves: its updated clone replaces the peer's
\* table and the flat view of the clone is the answer b keeps for the peer.
GossipReply(b) ==
  /\ boot[b].pc = "await"
  /\ \E dialOk \in Outcomes :
       LET p == boot[b].at
           tbl == GossipIn(boot[b].snap, b, boot[b].flat, dialOk)
       IN /\ remotes' = [remotes EXCEPT ![p] = tbl]
          /\ boot' = [boot EXCEPT ![b] =
               [pc |-> "gossip", initial |-> boot[b].initial,
                todo |-> boot[b].todo \ {p},
                acc |-> Put(boot[b].acc, p, OkView(Flat(tbl))),
                flat |-> boot[b].flat]]
          /\ faults' = Bump(~dialOk /\ b \notin DOMAIN boot[b].snap)
  /\ UNCHANGED <<sync_with_n, phase, graph, log, pending, props, nprop, hist, call>>

InitGossip ==
  /\ Init
  /\ sync_with_n = 1

NextGossip ==
  \/ \E b \in Nodes : Launch(b)
  \/ \E b \in Nodes : GossipRecv(b)
  \/ \E b \in Nodes : GossipReply(b)
  \/ \E b \in Nodes : InitRemotesDone(b)
  \/ \E b \in Nodes : FetchLog(b)
  \/ \E b \in Nodes : CatchupDone(b)

SpecGossip == InitGossip /\ [][NextGossip]_vars

\* ------------------------------------------------------- concurrent callers
\* Two processes, and callers of node 1 that do not wait for one another:
\* every GraphDatabase call sends its GraphMutation to the MutationsLog at
\* once, and the results are kept.
MaxCalls == 3        \* Proposes sent in one behaviour
MaxInFlight == 2     \* Proposes of one node in progress at once

CallerNodes == {1, 2}
CallerMuts == {AddNode(1, NodeOf(1, 0)), AddNode(1, NodeOf(1, 1)), RemoveNode(1)}

InitCallers ==
  /\ Init
  /\ sync_with_n = 1

CallerPropose(n, m) ==
  /\ nprop < MaxCalls
  /\ Cardinality({t \in props : t.node = n /\ t.pc # "ret"}) < MaxInFlight
  /\ Settled
  /\ ProposeBegin(n, m)

NextCallers ==
  \/ \E b \in CallerNodes : Start(b)
  \/ \E b \in CallerNodes : Gossip(b)
  \/ \E b \in CallerNodes : InitRemotesDone(b)
  \/ \E b \in CallerNodes : FetchLog(b)
  \/ \E b \in CallerNodes : Replay(b)
  \/ \E b \in CallerNodes : CatchupDone(b)
  \/ \E n \in Proposers, m \in CallerMuts : CallerPropose(n, m)
  \/ \E t \in props, lane \in Lanes : RemSend(t, lane)
  \/ \E t \in props : ProposeStore(t)
  \/ \E t \in props : ProposeGraph(t)

SpecCallers == InitCallers /\ [][NextCallers]_vars

\* ------------------------------------------------------------------ restart
\* A process that stops and is started again on the same store path: the
\* LogStore (log.sqlite) and the Graph file are found as they were left,
\* while the peer table and the pending map are built anew.  Two processes;
\* the one that receives entries is stopped once the callers have made their
\* calls and nothing is in progress, so that nothing is sent to it while it
\* is off.
Stop(b) ==
  /\ phase[b] = "serving"
  /\ Settled
  /\ props = {}
  /\ nprop = MaxProposals
  /\ phase' = [phase EXCEPT ![b] = "off"]
  /\ boot' = [boot EXCEPT ![b] = IdleBoot]
  /\ remotes' = [remotes EXCEPT ![b] = <<>>]
  /\ pending' = [pending EXCEPT ![b] = <<>>]
  /\ fresh' = fresh \ {b}
  /\ UNCHANGED <<sync_with_n, graph, log, props, nprop, applied, attempted,
                 replicated, faults, call>>

InitRestart ==
  /\ Init
  /\ sync_with_n = 1

NextRestart ==
  \/ \E b \in CallerNodes : Start(b)
  \/ \E b \in CallerNodes : Gossip(b)
  \/ \E b \in CallerNodes : InitRemotesDone(b)
  \/ \E b \in CallerNodes : FetchLog(b)
  \/ \E b \in CallerNodes : Replay(b)
  \/ \E b \in CallerNodes : CatchupDone(b)
  \/ \E n \in Proposers, m \in ProposeMuts : ProposeStart(n, m)
  \/ \E t \in props, lane \in Lanes : RemSend(t, lane)
  \/ \E t \in props : ProposeStore(t)
  \/ \E t \in props : ProposeGraph(t)
  \/ \E t \in props : ProposeForget(t)
  \/ \E b \in CallerNodes \ Proposers : Stop(b)

SpecRestart == InitRestart /\ [][NextRestart]_vars

\* -------------------------------------------------------------------- reads
\* GraphDatabase sends a GraphQuery straight to the Graph actor, not through
\* MutationsLog; the Graph handles one message at a time and its handlers do
\* not await.  Two processes; the callers read while Proposes are under way.

\* The Proposes of n that wait for the answer of Remotes.
Suspended(n) == {t \in props : t.node = n /\ t.pc = "replicate"}

\* Variant: a read that is answered from the Graph the suspended Propose
\* is going to produce.
ReadAheadCall(n) ==
  /\ phase[n] = "serving"
  /\ call = NoCall
  /\ \E g \in {graph[n]} \cup {GraphApply(graph[n], t.m, TRUE).g : t \in Suspended(n)} :
       call' = [op |-> "Read", node |-> n, res |-> "Ok", out |-> Answers(g),
                seen |-> applied[n], held |-> Suspended(n) # {}]
  /\ UNCHANGED <<sync_with_n, phase, remotes, graph, log, pending, boot, props,
                 nprop, hist, faults>>

\* Handler<GraphQuery> for Graph, called through GraphDatabase: the answers
\* of the Graph as it is, the mutations applied on it so far and whether a
\* Propose of the node was waiting for Remotes.
ReadCall(n) ==
  /\ phase[n] = "serving"
  /\ call = NoCall
  /\ call' = [op |-> "Read", node |-> n, res |-> "Ok", out |-> Answers(graph[n]),
              seen |-> applied[n], held |-> Suspended(n) # {}]
  /\ UNCHANGED <<sync_with_n, phase, remotes, graph, log, pending, boot, props,
                 nprop, hist, faults>>

\* The caller has the answer of its read.
ReturnRead ==
  /\ call # NoCall
  /\ call' = NoCall
  /\ UNCHANGED <<sync_with_n, phase, remotes, graph, log, pending, boot, props,
                 nprop, hist, faults>>

NextReads ==
  \/ \E b \in CallerNodes : Start(b)
  \/ \E b \in CallerNodes : Gossip(b)
  \/ \E b \in CallerNodes : InitRemotesDone(b)
  \/ \E b \in CallerNodes : FetchLog(b)
  \/ \E b \in CallerNodes : Replay(b)
  \/ \E b \in CallerNodes : CatchupDone(b)
  \/ \E n \in Proposers, m \in ProposeMuts : ProposeStart(n, m)
  \/ \E t \in props, lane \in Lanes : RemSend(t, lane)
  \/ \E t \in props : ProposeStore(t)
  \/ \E t \in props : ProposeGraph(t)
  \/ \E t \in props : ProposeForget(t)
  \/ \E n \in CallerNodes : ReadCall(n)
  \/ ReturnRead

SpecReads == InitRestart /\ [][NextReads]_vars

\* ---------------------------------------------------------- the Graph alone
\* Calls made directly on the Graph of one node (Handler<GraphMutation> and
\* Handler<GraphQuery> for Graph); the other components stay as constructed.
MaxEdges == 3        \* edges held at once
MaxList == 2         \* length of a list handed to a query

GraphNodes == {NodeOf(1, 0), NodeOf(1, 1), NodeOf(2, 0)}
Weights == {7, 8}

ListsOf(S) == UNION {[1..n -> S] : n \in 0..MaxList}

InitGraph ==
  /\ Init
  /\ sync_with_n = 1

\* A GraphMutation handled by the Graph: the call with its result, the
\* payload it returned and the graph it found.
MutateCall(m, saveOk) ==
  LET r == GraphApply(graph[1], m, saveOk)
  IN /\ call = NoCall
     /\ graph' = [graph EXCEPT ![1] = r.g]
     /\ call' = [op |-> m.op, m |-> m, res |-> r.res,
                 val |-> IF m.op = "RemoveNode" THEN r.val ELSE <<>>,
                 pre |-> graph[1]]
     /\ UNCHANGED <<sync_with_n, phase, remotes, log, pending, boot, props,
                    nprop, hist, faults>>

AddNodeCall ==
  \E n \in GraphNodes, saveOk \in BOOLEAN : MutateCall(AddNode(n.id, n), saveOk)

RemoveNodeCall ==
  \E k \in Keys, saveOk \in BOOLEAN : MutateCall(RemoveNode(k), saveOk)

AddEdgeCall ==
  /\ Len(graph[1].edges) < MaxEdges
  /\ \E f \in Keys, t \in Keys, w \in Weights, saveOk \in BOOLEAN :
       MutateCall(AddEdge(f, t, w), saveOk)

RemoveEdgeCall ==
  \E f \in Keys, t \in Keys, saveOk \in BOOLEAN :
    MutateCall(RemoveEdge(f, t), saveOk)

\* A GraphQuery handled by the Graph: the call and the graph it answered.
QueryCall(op, arg, out) ==
  /\ call = NoCall
  /\ call' = [op |-> op, arg |-> arg, res |-> "Ok", out |-> out, pre |-> graph[1]]
  /\ UNCHANGED <<sync_with_n, phase, remotes, graph, log, pending, boot, props,
                 nprop, hist, faults>>

RetainNodesCall ==
  \E keys \in ListsOf(Keys) :
    QueryCall("RetainNodes", keys, retain_nodes(graph[1], keys))

FilterGraphCall ==
  \E ns \in {None} \cup {Some(l) : l \in ListsOf({NodeOf(k, 0) : k \in Keys})},
     es \in {None} \cup {Some(l) : l \in ListsOf(Weights)} :
    QueryCall("FilterGraph", <<ns, es>>, filter_graph(graph[1], ns, es))

\* The caller has the answer of its call and goes on to the next one.
ReturnCall ==
  /\ call # NoCall
  /\ call' = NoCall
  /\ UNCHANGED <<sync_with_n, phase, remotes, graph, log, pending, boot, props,
                 nprop, hist, faults>>

NextGraph ==
  \/ AddNodeCall
  \/ RemoveNodeCall
  \/ AddEdgeCall
  \/ RemoveEdgeCall
  \/ RetainNodesCall
  \/ FilterGraphCall
  \/ ReturnCall

SpecGraph == InitGraph /\ [][NextGraph]_vars
\* ------------------------------------------------- the Graph and its file
\* The elements of a list.
Range(l) == {l[i] : i \in DOMAIN l}

\* GraphStore keeps one file, written by every successful mutation with the
\* StableGraph the mutation produced; Graph::new reads it back.  inner is
\* assigned only from a successful save_to_file, so the file holds inner.

\* I::from(node), the key a payload derives (the test schema takes node.id).
KeyOf(node) == node.id

\* get_nodes_map_from_graph: the payloads in index order, each inserted under
\* its derived key, a later index replacing an earlier one.
get_nodes_map_from_graph(g) ==
  [k \in {KeyOf(g.nodes[i]) : i \in Slots(g)} |->
     CHOOSE i \in Slots(g) :
       /\ KeyOf(g.nodes[i]) = k
       /\ \A j \in Slots(g) : KeyOf(g.nodes[j]) = k => j <= i]

\* The orders a list of vacant slots can be in.
Orders(S) == {q \in [1..Cardinality(S) -> S] : \A i, j \in DOMAIN q : q[i] = q[j] => i = j}

\* GraphStore::load_from_file of an existing file: the nodes at their
\* indices, the vacant slots and the edges come back; the order in which the
\* decoded graph hands out its vacant slots is the decoder's.
load_from_file(g) ==
  {[nodes |-> g.nodes, free |-> q, edges |-> g.edges, nodes_map |-> <<>>] :
     q \in Orders(Range(g.free))}

\* Graph::new.
Graph_new(inner) == [inner EXCEPT !.nodes_map = get_nodes_map_from_graph(inner)]

\* The process ends and starts again on the same store directory.  A start
\* whose load fails builds no Graph and leaves the file alone.
Restart ==
  /\ call = NoCall
  /\ \E inner \in load_from_file(graph[1]) :
       /\ graph' = [graph EXCEPT ![1] = Graph_new(inner)]
       /\ call' = [op |-> "Restart", res |-> "Ok", pre |-> graph[1]]
  /\ UNCHANGED <<sync_with_n, phase, remotes, log, pending, boot, props,
                 nprop, hist, faults>>

MaxSlots == 3        \* node slots of the graph, held or vacant

\* add_node as the API offers it: the key is the caller's.
AddNodeAsCall ==
  /\ NewSlot(graph[1]) < MaxSlots
  /\ \E k \in Keys, n \in GraphNodes, saveOk \in BOOLEAN :
       MutateCall(AddNode(k, n), saveOk)

MaxFileEdges == 2    \* edges in the file

AddEdgeToFileCall ==
  /\ Len(graph[1].edges) < MaxFileEdges
  /\ AddEdgeCall

NextSnapshot ==
  \/ AddNodeAsCall
  \/ RemoveNodeCall
  \/ AddEdgeToFileCall
  \/ RemoveEdgeCall
  \/ Restart
  \/ ReturnCall

SpecSnapshot == InitGraph /\ [][NextSnapshot]_vars
\* ------------------------------------------------------------- properties
\* The entry a task proposes, as a peer's SyncMutationsLog would return it.
EntryOf(t) == [hash |-> t.hash, mutation |-> t.m]

Returned(t, res) == t.pc = "ret" /\ t.res = res

\* C1: whenever a local Propose has returned Ok to its caller, the local
\* LogStore holds an entry for the mutation's hash with committed = true.
C1_ReturnedOkIsCommitted ==
  \A t \in props : Returned(t, "Ok") => IsCommitted(log[t.node], t.hash)

\* A Propose that went through its sampled peers and returned Ok.
C1_Witness ==
  \E t \in props : /\ Returned(t, "Ok")
                   /\ t.sy.sample # {}
                   /\ IsCommitted(log[t.node], t.hash)

\* C2 as stated: on every node every committed entry's mutation has been
\* applied by the node's Graph with Ok at least once (or is about to be
\* sent to it by the local Propose that has just committed it).
C2_CommittedWasApplied ==
  \A n \in Nodes : \A h \in Rows(log[n]) :
    log[n][h].committed =>
      \/ h \in applied[n]
      \/ \E t \in props : t.node = n /\ t.hash = h /\ t.pc = "graph"

\* C2, as the pipeline has it: on every node every committed entry's
\* mutation has been sent to the node's Graph at least once, or is about to
\* be by the local Propose that has just committed it; the Graph may have
\* answered with an error.
C2_CommittedWasSentToGraph ==
  \A n \in Nodes : \A h \in Rows(log[n]) :
    log[n][h].committed =>
      \/ h \in attempted[n]
      \/ \E t \in props : t.node = n /\ t.hash = h /\ t.pc = "graph"

\* A committed entry whose mutation the Graph was sent and never applied.
C2_Witness ==
  \E n \in Nodes : \E h \in Rows(log[n]) :
    log[n][h].committed /\ h \in attempted[n] /\ h \notin applied[n]

\* C3: a local Propose whose ReplicateToN failed (some sampled peer did not
\* acknowledge, whether or not others did) returns SyncError; unless an
\* earlier Propose of the same hash got through, the hash is not committed
\* in the local LogStore and the local Graph was never sent the mutation.
C3_FailedReplicationStopsPropose ==
  \A t \in props :
    t.sy.st = "err" =>
      /\ Returned(t, "SyncError")
      /\ t.hash \notin replicated =>
           /\ ~IsCommitted(log[t.node], t.hash)
           /\ t.hash \notin attempted[t.node]

\* A failed ReplicateToN after one of the two sampled peers acknowledged.
C3_Witness ==
  \E t \in props : /\ t.sy.st = "err"
                   /\ Acked(t.sy) # {}
                   /\ t.hash \notin replicated
                   /\ Returned(t, "SyncError")

\* C4 as stated: after a local Propose failed at the quorum step, the local
\* LogStore has an entry for its hash with committed = false and the pending
\* map of the MutationsLog contains the hash.
C4_FailedProposeStaysPending ==
  \A t \in props :
    Returned(t, "SyncError") =>
      /\ t.hash \in Rows(log[t.node])
      /\ ~log[t.node][t.hash].committed
      /\ t.hash \in DOMAIN pending[t.node]

\* C5: on a node with no reachable peer ReplicateToN returns Ok: a Propose
\* never returns SyncError, and one that returned Ok (the Graph accepted its
\* mutation) is committed in the LogStore and applied to the Graph.
C5_NoPeerProposeSucceeds ==
  \A t \in props :
    t.reach = {} =>
      /\ t.sy.st = "ok"
      /\ t.res # "SyncError"
      /\ Returned(t, "Ok") =>
           /\ IsCommitted(log[t.node], t.hash)
           /\ t.hash \in applied[t.node]

\* A Propose on a node with no reachable peer that returned Ok.
C5_Witness ==
  \E t \in props : /\ t.reach = {}
                   /\ Returned(t, "Ok")
                   /\ IsCommitted(log[t.node], t.hash)
                   /\ t.hash \in applied[t.node]

\* C6 as stated, in the state where nothing more will be sent: B started
\* with A as an initial remote and A's table lists B as reachable; A's only
\* Propose, an AddNode, returned Ok with no transport or disk failure and
\* both Remotes futures for it have ended.  Then B's Graph contains the node.
C6_PeerReceivesNode ==
  \A t \in props : \A b \in t.reach :
    ( /\ t.m.op = "AddNode"
      /\ Returned(t, "Ok")
      /\ t.ff.st # "run"
      /\ nprop = 1
      /\ faults = 0
      /\ boot[b].pc = "done"
      /\ t.node \in boot[b].initial )
    => has_node(graph[b], t.m.key)

\* Catch-up of b, started with a as its initial remote, is complete; a
\* committed what it holds while b was off, nothing has been proposed since
\* and nothing has failed.
CaughtUpFrom(b, a) ==
  /\ b \in fresh
  /\ boot[b].pc = "done"
  /\ boot[b].initial = {a}
  /\ Rows(log[a]) # {}
  /\ \A h \in Rows(log[a]) : log[a][h].committed
  /\ faults = 0

OnlyDistinctAdds(tbl) ==
  /\ \A h \in Rows(tbl) : StoreQuery(tbl)[h].op = "AddNode"
  /\ \A h1 \in Rows(tbl) : \A h2 \in Rows(tbl) :
       StoreQuery(tbl)[h1].key = StoreQuery(tbl)[h2].key => h1 = h2

Deliverable ==
  {FromRequest(ToRequest([hash |-> get_hash(n, m), mutation |-> m])) :
     n \in Proposers, m \in ProposeMuts}

\* The LogStore and the Graph of a node after the entry was delivered to it
\* (disk writes succeeding).
Delivered(tbl, g, e) ==
  LET r == commit_mutation(tbl, g, e.hash, e.mutation, TRUE, TRUE)
  IN <<r.tbl, r.g>>

C10_AppendAndCommitOfKnownHash ==
  (call.op \in {"Add", "Commit"} /\ call.hash \in Rows(call.pre)) =>
    /\ call.op = "Add" => (call.res = "WriteLogError" /\ log[1] = call.pre)
    /\ (call.op = "Commit" /\ call.io) =>
         /\ call.res = "Ok"
         /\ log[1] = [call.pre EXCEPT ![call.hash].committed = TRUE]

\* A commit of a present, uncommitted hash right after a refused append of
\* a present hash.
C10_Witness ==
  /\ call.op = "Commit"
  /\ call.hash \in Rows(call.pre)
  /\ ~call.pre[call.hash].committed
  /\ call.res = "Ok"
  /\ call.prior = <<"Add", TRUE>>
  /\ IsCommitted(log[1], call.hash)

\* Every key is mapped to a slot of its own and every node has a key.
OneNodePerKey(g) ==
  /\ \A k1 \in DOMAIN g.nodes_map : \A k2 \in DOMAIN g.nodes_map :
       g.nodes_map[k1] = g.nodes_map[k2] => k1 = k2
  /\ {g.nodes_map[k] : k \in DOMAIN g.nodes_map} = Slots(g)

\* C11: add_node of a key that is mapped fails with ConflictDuplicateNode
\* and leaves the graph, the key map and the node count as they were; after
\* any sequence of mutations the graph holds one node per mapped key.
C11_DuplicateAddNodeRefused ==
  /\ OneNodePerKey(graph[1])
  /\ (call.op = "AddNode" /\ call.m.key \in DOMAIN call.pre.nodes_map) =>
       /\ call.res = "ConflictDuplicateNode"
       /\ graph[1] = call.pre

\* A refused add_node of a mapped key with a payload other than the one
\* the graph holds for it, in a graph of two nodes.
C11_Witness ==
  /\ call.op = "AddNode"
  /\ call.res = "ConflictDuplicateNode"
  /\ get_node(call.pre, call.m.key).val # <<call.m.node>>
  /\ Cardinality(Slots(graph[1])) = 2

\* C12: after any sequence of add_node, remove_node, add_edge and
\* remove_edge calls, successful or failing, there is at most one edge per
\* ordered pair of keys and every edge connects two nodes of the graph.
C12_EdgesUniqueAndAttached ==
  LET g == graph[1]
  IN /\ \A i \in DOMAIN g.edges : \A j \in DOMAIN g.edges :
          (g.edges[i].src = g.edges[j].src /\ g.edges[i].dst = g.edges[j].dst)
            => i = j
     /\ \A i \in DOMAIN g.edges :
          /\ g.edges[i].src \in Slots(g)
          /\ g.edges[i].dst \in Slots(g)
          /\ \E f \in DOMAIN g.nodes_map, t \in DOMAIN g.nodes_map :
               g.nodes_map[f] = g.edges[i].src /\ g.nodes_map[t] = g.edges[i].dst

\* A refused add_edge of a pair that has an edge of another weight, in a
\* graph that holds edges in both directions between two nodes.
C12_Witness ==
  /\ call.op = "AddEdge"
  /\ call.res = "ConflictDuplicateEdge"
  /\ get_edge(call.pre, call.m.from, call.m.to).val # call.m.edge
  /\ get_edge(graph[1], 1, 2).res = "Ok"
  /\ get_edge(graph[1], 2, 1).res = "Ok"

\* C13: remove_node of a mapped key (the snapshot save succeeding) returns
\* the node's payload, removes the node, its key and every edge that leaves
\* or enters it, and leaves the other nodes and edges as they were; of a key
\* that is not mapped it fails with NodeNotFound and changes nothing.
C13_RemoveNodeTakesIncidentEdges ==
  call.op = "RemoveNode" =>
    LET pre == call.pre
        key == call.m.key
    IN IF key \notin DOMAIN pre.nodes_map
         THEN call.res = "NodeNotFound" /\ graph[1] = pre
       ELSE call.res # "FileSaveError" =>
         LET idx == pre.nodes_map[key]
         IN /\ call.res = "Ok"
            /\ call.val = <<pre.nodes[idx]>>
            /\ graph[1].nodes = [i \in Slots(pre) \ {idx} |-> pre.nodes[i]]
            /\ graph[1].nodes_map =
                 [k \in DOMAIN pre.nodes_map \ {key} |-> pre.nodes_map[k]]
            /\ graph[1].edges =
                 SelectSeq(pre.edges, LAMBDA e : e.src # idx /\ e.dst # idx)

\* A remove_node that took an edge leaving the node and one entering it and
\* left an edge of the other node.
C13_Witness ==
  /\ call.op = "RemoveNode"
  /\ call.res = "Ok"
  /\ LET idx == call.pre.nodes_map[call.m.key]
     IN /\ \E i \in DOMAIN call.pre.edges :
             call.pre.edges[i].src = idx /\ call.pre.edges[i].dst # idx
        /\ \E i \in DOMAIN call.pre.edges :
             call.pre.edges[i].dst = idx /\ call.pre.edges[i].src # idx
  /\ Len(graph[1].edges) = 1

\* C15: retain_nodes answers the nodes of the graph whose key is in the
\* list (keys that are not mapped are ignored) with the edges both of whose
\* endpoints are retained, and leaves the stored graph as it was.
C15_RetainNodesIsKeyFilter ==
  call.op = "RetainNodes" =>
    LET pre == call.pre
        keep == {pre.nodes_map[k] : k \in Range(call.arg) \cap DOMAIN pre.nodes_map}
    IN /\ call.out.nodes = [i \in keep |-> pre.nodes[i]]
       /\ call.out.edges =
            SelectSeq(pre.edges, LAMBDA e : e.src \in keep /\ e.dst \in keep)
       /\ graph[1] = pre

\* A retain_nodes of one mapped key, named twice, that kept the node with
\* its loop and dropped the other node with the edges to and from it.
C15_Witness ==
  /\ call.op = "RetainNodes"
  /\ Len(call.arg) = 2
  /\ Cardinality(DOMAIN call.out.nodes) = 1
  /\ Cardinality(Slots(call.pre)) = 2
  /\ Len(call.out.edges) = 1
  /\ Len(call.pre.edges) = 3

\* C16 as stated: filter_graph(Some(nodes), Some(edges)) answers the nodes
\* whose payload is in the nodes list and the edges between them whose
\* payload is in the edges list, whatever the order and multiplicity of the
\* lists.
C16_FilterKeepsListed ==
  (call.op = "FilterGraph" /\ call.arg[1].some /\ call.arg[2].some) =>
    LET pre == call.pre
        keep == {i \in Slots(pre) : pre.nodes[i] \in Range(call.arg[1].list)}
    IN /\ call.out.nodes = [i \in keep |-> pre.nodes[i]]
       /\ call.out.edges =
            SelectSeq(pre.edges,
                      LAMBDA e : /\ e.src \in keep
                                 /\ e.dst \in keep
                                 /\ e.w \in Range(call.arg[2].list))

\* C17: the log only grows: a hash that is in a node's LogStore is there in
\* every later state, and a committed flag that is true stays true, under
\* every step of Propose, Commit, the log query and catch-up.
C17_LogOnlyGrows ==
  [][\A n \in Nodes : \A h \in Rows(log[n]) :
       /\ h \in Rows(log'[n])
       /\ log[n][h].committed => log'[n][h].committed]_vars

\* A node that went through catch-up and holds two committed entries.
C17_Witness ==
  \E n \in Nodes \ Proposers :
    /\ boot[n].pc = "done"
    /\ Cardinality({h \in Rows(log[n]) : log[n][h].committed}) = 2

\* C18 as stated, for the tables of the nodes that have completed their
\* startup: an address that is in the peer table stays in it, under any
\* interleaving of incoming gossip messages.
C18_PeerTableOnlyGrows ==
  [][\A n \in Nodes :
       phase[n] = "serving" => DOMAIN remotes[n] \subseteq DOMAIN remotes'[n]]_vars

C19_ProposesDoNotInterleave ==
  \A n \in Nodes : Cardinality({t \in props : t.node = n /\ t.pc # "ret"}) <= 1

\* C20 as stated: a peer has been sent the entry of a local Propose only
\* after the entry was appended to the local LogStore.
C20_AppendedBeforeSent ==
  \A t \in props :
    (Acked(t.sy) \cup Acked(t.ff) # {}) => t.hash \in Rows(log[t.node])

C22_StoreBeforeGraph ==
  [][\A n \in Nodes :
       graph'[n] # graph[n]
         => \E h \in Rows(log'[n]) :
              /\ log'[n][h].committed
              /\ graph'[n] = GraphApply(graph[n], Decode(log'[n][h].mutation), TRUE).g]_vars

\* One entry committed and applied on the three paths: by the Propose of
\* its node, by the Commit of a peer that acknowledged, and by the catch-up
\* of a node started afterwards.
C22_Witness ==
  \E t \in props : \E p \in Acked(t.sy) : \E b \in Nodes \ (t.reach \cup {t.node}) :
    /\ Returned(t, "Ok")
    /\ t.hash \in applied[t.node] /\ IsCommitted(log[t.node], t.hash)
    /\ t.hash \in applied[p] /\ IsCommitted(log[p], t.hash)
    /\ boot[b].pc = "done"
    /\ t.hash \in applied[b] /\ IsCommitted(log[b], t.hash)

\* C23: each ReplicateToN call draws, from the peers whose last view was
\* successful when the message was handled, exactly min(sync_with_n, r) of
\* the r such peers, all distinct, and sends to no peer outside the sample
\* and to no peer more than once.
C23_SampleOnceMinDistinct ==
  \A t \in props : \A lane \in Lanes :
    /\ t[lane].sample \subseteq t.reach
    /\ Cardinality(t[lane].sample) = Min(sync_with_n, Cardinality(t.reach))
    /\ DOMAIN t[lane].sends = t[lane].sample
    /\ \A p \in t[lane].sample : t[lane].sends[p] <= 1

\* With more reachable peers than sync_with_n: both calls of one Propose
\* have sent to the one peer each sampled, and have ended.
C23_Witness ==
  \E t \in props : \A lane \in Lanes :
    /\ Cardinality(t.reach) > sync_with_n
    /\ t[lane].st # "run"
    /\ Cardinality(t[lane].sample) = sync_with_n
    /\ \A p \in t[lane].sample : t[lane].sends[p] = 1

C25_SendsToAllSampled ==
  \A t \in props : \A lane \in Lanes :
    t[lane].st # "run" => \A p \in t[lane].sample : t[lane].sends[p] = 1

\* C26 as stated: the fire-and-forget broadcast of a Propose sends to every
\* reachable peer, also when there are more of them than sync_with_n: once
\* the do_send call has ended without an error, every peer that was
\* reachable has been sent the entry by it.
C26_BroadcastToEveryReachable ==
  \A t \in props :
    t.ff.st = "ok" =>
      \A p \in t.reach : p \in DOMAIN t.ff.sends /\ t.ff.sends[p] = 1

\* C27: handling a mutation received from a peer sends nothing to Remotes
\* and no GraphMutation RPC to any peer: in a step in which a serving node
\* that proposes nothing itself commits a received entry, only the LogStore
\* and the Graph of that node change; the peer tables, the pending maps and
\* the other nodes stay as they are, and no Remotes call of that node
\* exists afterwards.
C27_PeerCommitNoFanout ==
  [][\A p \in Nodes \ Proposers :
       (phase[p] = "serving" /\ (log'[p] # log[p] \/ graph'[p] # graph[p]))
         => /\ \A q \in Nodes \ {p} : log'[q] = log[q] /\ graph'[q] = graph[q]
            /\ remotes' = remotes
            /\ pending' = pending
            /\ \A u \in props' : u.node # p
            /\ {u.seq : u \in props'} = {t.seq : t \in props}]_vars

\* A serving peer that lists other nodes as reachable has committed and
\* applied an entry it received.
C27_Witness ==
  \E t \in props : \E p \in Acked(t.sy) :
    /\ phase[p] = "serving"
    /\ Reachable(remotes[p]) # {}
    /\ t.hash \in applied[p]
    /\ IsCommitted(log[p], t.hash)

\* C28 as stated: when the Graph of the receiving node rejects a received
\* mutation the error is not surfaced and the RPC reports success: with no
\* transport or disk failure, every peer that a Remotes call has sent the
\* entry to has acknowledged it.
C28_RejectionNotSurfaced ==
  \A t \in props : \A lane \in Lanes : \A p \in t[lane].sample :
    (faults = 0 /\ t[lane].sends[p] = 1) => p \in Acked(t[lane])

\* C29 as stated: during catch-up an entry of the merged log that is
\* already committed in the local LogStore is not committed and applied
\* again: the replay step of such an entry leaves the Graph as it is.
C29_CommittedNotReplayed ==
  [][\A b \in Nodes :
       ( /\ boot[b].pc = "replay"
         /\ boot[b].merged # <<>>
         /\ IsCommitted(log[b], Head(boot[b].merged).hash) )
       => graph'[b] = graph[b]]_vars

\* C30: a failure to commit or apply one entry of the merged log does not
\* stop catch-up.  Each replay step takes the next entry and leaves the rest
\* to be processed; an entry whose commit_mutation failed (the Graph stayed
\* as it was) is put into the pending clone, which loses nothing; and when no
\* entry is left the handler returns Ok: the node serves, with the clone,
\* every failed entry in it, as its pending map.
C30_CatchUpGoesOnAfterFailure ==
  [][\A b \in Nodes :
       (boot[b].pc = "replay" /\ boot'[b] # boot[b])
         => IF boot[b].merged # <<>>
              THEN LET e == Head(boot[b].merged)
                   IN /\ boot'[b].pc = "replay"
                      /\ boot'[b].merged = Tail(boot[b].merged)
                      /\ \A h \in DOMAIN boot[b].clone :
                           /\ h \in DOMAIN boot'[b].clone
                           /\ boot'[b].clone[h] = boot[b].clone[h]
                      /\ graph'[b] = graph[b]
                           => /\ e.hash \in DOMAIN boot'[b].clone
                              /\ boot'[b].clone[e.hash] = e.mutation
              ELSE /\ boot'[b].pc = "done"
                   /\ phase'[b] = "serving"
                   /\ pending'[b] = boot[b].clone]_vars

\* With no transport or disk failure, a node has completed a catch-up in
\* which the Graph rejected an AddNode (the entry is in pending) and the
\* RemoveNode after it in the merged log was applied (the key is gone).
C30_Witness ==
  \E b \in Nodes : \E h1 \in DOMAIN pending[b] : \E h2 \in applied[b] :
    /\ phase[b] = "serving"
    /\ faults = 0
    /\ h1 < h2
    /\ pending[b][h1].op = "AddNode"
    /\ ~has_node(graph[b], pending[b][h1].key)

\* C31: startup catch-up processes the merged peer log in strictly ascending
\* hash order and each hash at most once, also when several peers returned
\* the same entry: a replay step commits the first entry of what is left,
\* writes no other row and applies no other mutation, and every entry left
\* after it has a greater hash.
C31_ReplayAscendingOnce ==
  [][\A b \in Nodes :
       (boot[b].pc = "replay" /\ boot[b].merged # <<>> /\ boot'[b] # boot[b])
         => LET e == Head(boot[b].merged)
            IN /\ boot'[b].pc = "replay"
               /\ \A i \in DOMAIN boot'[b].merged : boot'[b].merged[i].hash > e.hash
               /\ Rows(log'[b]) \subseteq Rows(log[b]) \cup {e.hash}
               /\ graph'[b] # graph[b]
                    => graph'[b] = GraphApply(graph[b], e.mutation, TRUE).g]_vars

\* A node replays a merged log of two entries that each of its two peers
\* holds, and so returned.
C31_Witness ==
  \E b \in Nodes : \E p \in DOMAIN remotes[b] : \E q \in DOMAIN remotes[b] \ {p} :
    /\ boot[b].pc = "replay"
    /\ Len(boot[b].merged) = 2
    /\ \A i \in DOMAIN boot[b].merged :
         boot[b].merged[i].hash \in Rows(log[p]) \cap Rows(log[q])

\* C32 as stated: when InitializeRemotes completes, the peer table of the
\* node holds the initial peers it reached together with the addresses
\* listed in the views those peers returned (its own address, which the
\* views list too, left aside).
C32_TableIsUnionOfViews ==
  [][\A b \in Nodes :
       (boot[b].pc = "gossip" /\ boot'[b].pc # "gossip")
         => DOMAIN remotes'[b] =
              ( DOMAIN boot[b].flat
                \cup UNION {DOMAIN boot[b].acc[a].view :
                              a \in {x \in DOMAIN boot[b].acc : boot[b].acc[x].ok}} )
              \ {b}]_vars

\* C33 as stated: when the handler of SyncRemotes(from, view) on a recipient
\* resolves, the recipient's table maps from to view (from being inserted
\* only by this handler), every other entry is as it was before, and the
\* reply is the flat view of the table after the update.
C33_GossipUpdatesSenderOnly ==
  [][\A b \in Nodes :
       (boot[b].pc = "await" /\ boot'[b].pc # "await")
         => LET p == boot[b].at
            IN /\ b \in DOMAIN remotes'[p] => remotes'[p][b] = OkView(boot[b].flat)
               /\ DOMAIN remotes'[p] \subseteq DOMAIN remotes[p] \cup {b}
               /\ \A a \in DOMAIN remotes[p] \ {b} :
                    a \in DOMAIN remotes'[p] /\ remotes'[p][a] = remotes[p][a]
               /\ boot'[b].acc[p] = OkView(Flat(remotes'[p]))]_vars

\* C34 as stated: the Graph built from the snapshot answers get_nodes,
\* get_edges, has_node and get_node as the Graph did before the restart.
C34_RestartKeepsAnswers ==
  call.op = "Restart" => Answers(graph[1]) = Answers(call.pre)

\* C37 as stated: in every state of the Graph every mapped key refers to a
\* node that is present and every present node is referred to by exactly
\* one key, whether the last mutation succeeded or failed.
C37_KeyMapMatchesGraph ==
  LET g == graph[1]
  IN /\ \A k \in DOMAIN g.nodes_map : g.nodes_map[k] \in Slots(g)
     /\ \A i \in Slots(g) :
          Cardinality({k \in DOMAIN g.nodes_map : g.nodes_map[k] = i}) = 1

\* C35 as stated: no hash is at once in a node's pending map and committed
\* in that node's LogStore.
C35_PendingNotCommitted ==
  \A n \in Nodes : \A h \in DOMAIN pending[n] : ~IsCommitted(log[n], h)

\* The mutations whose hashes are in a set of hashes.
MutsOf(H) == {m \in ProposeMuts : \E p \in Proposers : get_hash(p, m) \in H}

\* The Graphs that successive applications of mutations of M produce from
\* the empty Graph.
RECURSIVE AppliedStates(_, _)
AppliedStates(S, M) ==
  LET T == S \cup {GraphApply(g, m, TRUE).g : g \in S, m \in M}
  IN IF T = S THEN S ELSE AppliedStates(T, M)

\* C36: a read of a node's Graph, also one made while a Propose of the node
\* waits for its acknowledgements, is answered from a Graph that a sequence
\* of the mutations applied on the node so far produces from the empty one.
C36_ReadSeesWholeMutations ==
  call.op = "Read"
    => \E g \in AppliedStates({EmptyGraph}, MutsOf(call.seen)) :
         call.out = Answers(g)

\* A read answered while a Propose of the node is suspended, after a
\* mutation was applied on the node.
C36_Witness ==
  /\ call.op = "Read"
  /\ call.held
  /\ call.seen # {}
  /\ \E t \in props : t.node = call.node /\ t.pc = "replicate"

\* C38: when a fetch of catch-up fails, InitializeMutationsLog ends with an
\* error at that point: no replay follows, and neither the step nor anything
\* catch-up does afterwards touches the node's LogStore, Graph or pending
\* map, whatever was fetched before.
C38_FailedFetchCommitsNothing ==
  [][\A b \in Nodes :
       /\ (boot[b].pc = "fetch" /\ boot'[b] # boot[b] /\ faults' # faults)
            => /\ boot'[b].pc = "failed"
               /\ log'[b] = log[b]
               /\ graph'[b] = graph[b]
               /\ pending'[b] = pending[b]
       /\ (boot[b].pc = "fetch" /\ boot'[b] # boot[b])
            => log'[b] = log[b] /\ graph'[b] = graph[b]
       /\ boot[b].pc = "failed"
            => boot'[b] = boot[b] /\ pending'[b] = pending[b]]_vars

\* A catch-up with two peers that failed, one of the peers holding a
\* committed entry that the node does not hold.
C38_Witness ==
  \E b \in Nodes :
    /\ boot[b].pc = "failed"
    /\ Cardinality(DOMAIN remotes[b]) = 2
    /\ \E p \in DOMAIN remotes[b] : \E h \in Rows(log[p]) :
         IsCommitted(log[p], h) /\ h \notin Rows(log[b])

\* C39: no LogStore of the cluster holds an uncommitted row, and an entry
\* that a replay step of catch-up commits or applies on a node is committed
\* in the LogStore of a peer of that node.
C39_CatchUpCommitsCommittedOnly ==
  [][/\ \A n \in Nodes : \A h \in Rows(log[n]) : log[n][h].committed
     /\ \A b \in Nodes :
          (boot[b].pc = "replay" /\ boot[b].merged # <<>> /\ boot'[b] # boot[b])
            => LET e == Head(boot[b].merged)
               IN (IsCommitted(log'[b], e.hash) \/ graph'[b] # graph[b])
                    => \E p \in DOMAIN remotes[b] : IsCommitted(log[p], e.hash)]_vars

\* A node in its replay that has committed and applied an entry of a peer
\* and has a further one to go.
C39_Witness ==
  \E b \in Nodes :
    /\ boot[b].pc = "replay"
    /\ boot[b].merged # <<>>
    /\ \E h \in applied[b] :
         /\ IsCommitted(log[b], h)
         /\ \E p \in DOMAIN remotes[b] : IsCommitted(log[p], h)

====
